---- MODULE Spec2Model ----
(***************************************************************************)
(* Formatting engine of the `time` crate: the format-item tree evaluator   *)
(* (fmt_ignore / format_into on FormatItem, OwnedFormatItem and slices of  *)
(* them), Component::fmt_ignore, and the well-known encoders Rfc2822,      *)
(* Rfc3339 and Iso8601.                                                    *)
(*                                                                         *)
(* A behaviour is one call: Init draws the receiver (`format`, `item`,     *)
(* `items`, `config`), the arguments (`optional`, `date`, `time`,          *)
(* `offset`) and the sink (`output`); the actions apply Sealed::fmt_ignore *)
(* or Sealed::format_into to them.                                         *)
(*                                                                         *)
(* Bytes are one-character strings; Option<T> is the empty set (None) or a *)
(* singleton (Some(v)).                                                    *)
(***************************************************************************)
EXTENDS Integers, Sequences, FiniteSets, TLC

VARIABLES
    format,     \* which Sealed impl receives the call
    item,       \* the FormatItem / OwnedFormatItem tree (receiver)
    items,      \* the [FormatItem] / [OwnedFormatItem] slice (receiver)
    config,     \* Iso8601<CONFIG>: the FORMAT_DATE/TIME/OFFSET flags
    optional,   \* format_into's `optional` argument
    date,       \* Option<Date>
    time,       \* Option<Time>
    offset,     \* Option<UtcOffset>
    output,     \* the sink: [buf, limit]
    ignore,     \* value returned by fmt_ignore (Option<bool>)
    result,     \* value returned by format_into
    pc          \* "ready", "fmt_ignore" or "format_into"

vars == <<format, item, items, config, optional, date, time, offset,
          output, ignore, result, pc>>

-----------------------------------------------------------------------------
(* Option<T> *)

None == {}

Some(v) == {v}

unwrap(o) == CHOOSE v \in o : TRUE

-----------------------------------------------------------------------------
(* Result<usize, error::Format>, plus the panic outcome *)

Ok(n) == [kind |-> "Ok", bytes |-> n, err |-> <<>>]

Err(e) == [kind |-> "Err", bytes |-> 0, err |-> e]

Panic(msg) == [kind |-> "Panic", bytes |-> 0, err |-> <<msg>>]

NotCalled == [kind |-> "NotCalled", bytes |-> 0, err |-> <<>>]

\* error::Format
InsufficientTypeInformation == <<"InsufficientTypeInformation">>

InvalidComponent(name) == <<"InvalidComponent", name>>

StdIo == <<"StdIo">>

-----------------------------------------------------------------------------
(* The sink.  `limit` = None is a growable Vec<u8> (never fails);          *)
(* `limit` = Some(n) is a fixed buffer of n bytes (&mut [u8]): write_all   *)
(* copies what fits and fails once the buffer is full.                     *)

\* formatting::write: output.write_all(bytes)?; Ok(bytes.len())
write(out, bytes) ==
    IF out.limit = None \/ Len(out.buf) + Len(bytes) <= unwrap(out.limit)
    THEN [output |-> [out EXCEPT !.buf = out.buf \o bytes],
          res |-> Ok(Len(bytes))]
    ELSE [output |-> [out EXCEPT !.buf =
                         out.buf \o SubSeq(bytes, 1, unwrap(out.limit) - Len(out.buf))],
          res |-> Err(StdIo)]

\* `bytes += <call>?;` : the running state of a function body is
\* [output, res]; a step that fails leaves its error in res and every later
\* step is skipped.
AddBytes(st, r) ==
    IF r.res.kind = "Ok"
    THEN [output |-> r.output, res |-> Ok(st.res.bytes + r.res.bytes)]
    ELSE r

\* a run of `bytes += write(output, chunk)?;` statements, in source order
RECURSIVE write_chunks(_, _)
write_chunks(st, chunks) ==
    IF st.res.kind # "Ok" \/ chunks = <<>>
    THEN st
    ELSE write_chunks(AddBytes(st, write(st.output, Head(chunks))), Tail(chunks))

-----------------------------------------------------------------------------
(* Numeric writer *)

DIGITS == <<"0", "1", "2", "3", "4", "5", "6", "7", "8", "9">>

RECURSIVE itoa(_)
itoa(value) ==
    IF value < 10 THEN <<DIGITS[value + 1]>>
    ELSE Append(itoa(value \div 10), DIGITS[(value % 10) + 1])

RECURSIVE zeros(_)
zeros(n) == IF n <= 0 THEN <<>> ELSE <<"0">> \o zeros(n - 1)

\* the bytes format_number_pad_zero::<WIDTH> hands to the sink: WIDTH minus
\* the digit count of `value` zeros, then the digits of `value`
pad_zero(WIDTH, value) == zeros(WIDTH - Len(itoa(value))) \o itoa(value)

format_number_pad_zero(WIDTH, out, value) == write(out, pad_zero(WIDTH, value))

RECURSIVE pow10(_)
pow10(n) == IF n = 0 THEN 1 ELSE 10 * pow10(n - 1)

abs(x) == IF x < 0 THEN -x ELSE x

-----------------------------------------------------------------------------
(* Date, Time, UtcOffset and their accessors (the calendar layer)          *)
(*   Date      = [year, month, day]                                        *)
(*   Time      = [hour, minute, second, nanosecond]                        *)
(*   UtcOffset = [hours, minutes, seconds], all of one sign                *)

WEEKDAY_NAMES == <<
    <<"M", "o", "n", "d", "a", "y">>,
    <<"T", "u", "e", "s", "d", "a", "y">>,
    <<"W", "e", "d", "n", "e", "s", "d", "a", "y">>,
    <<"T", "h", "u", "r", "s", "d", "a", "y">>,
    <<"F", "r", "i", "d", "a", "y">>,
    <<"S", "a", "t", "u", "r", "d", "a", "y">>,
    <<"S", "u", "n", "d", "a", "y">> >>

MONTH_NAMES == <<
    <<"J", "a", "n", "u", "a", "r", "y">>,
    <<"F", "e", "b", "r", "u", "a", "r", "y">>,
    <<"M", "a", "r", "c", "h">>,
    <<"A", "p", "r", "i", "l">>,
    <<"M", "a", "y">>,
    <<"J", "u", "n", "e">>,
    <<"J", "u", "l", "y">>,
    <<"A", "u", "g", "u", "s", "t">>,
    <<"S", "e", "p", "t", "e", "m", "b", "e", "r">>,
    <<"O", "c", "t", "o", "b", "e", "r">>,
    <<"N", "o", "v", "e", "m", "b", "e", "r">>,
    <<"D", "e", "c", "e", "m", "b", "e", "r">> >>

is_leap_year(year) == year % 4 = 0 /\ (year % 100 # 0 \/ year % 400 = 0)

\* days since 1970-01-01 of a proleptic Gregorian date
days_from_civil(d) ==
    LET y   == IF d.month <= 2 THEN d.year - 1 ELSE d.year
        era == y \div 400
        yoe == y - era * 400
        mp  == IF d.month > 2 THEN d.month - 3 ELSE d.month + 9
        doy == (153 * mp + 2) \div 5 + d.day - 1
        doe == yoe * 365 + yoe \div 4 - yoe \div 100 + doy
    IN  era * 146097 + doe - 719468

\* Date::weekday().number_days_from_monday()
number_days_from_monday(d) == (days_from_civil(d) + 3) % 7

\* Date::ordinal()
ordinal(d) == days_from_civil(d) - days_from_civil([d EXCEPT !.month = 1, !.day = 1]) + 1

weeks_in_year(year) ==
    LET jan1 == number_days_from_monday([year |-> year, month |-> 1, day |-> 1])
    IN  IF jan1 = 3 \/ (is_leap_year(year) /\ jan1 = 2) THEN 53 ELSE 52

\* Date::iso_week()
iso_week(d) ==
    LET w == (ordinal(d) - (number_days_from_monday(d) + 1) + 10) \div 7
    IN  IF w = 0 THEN weeks_in_year(d.year - 1)
        ELSE IF w = 53 /\ weeks_in_year(d.year) = 52 THEN 1
        ELSE w

\* UtcOffset::is_utc
is_utc(o) == o.hours = 0 /\ o.minutes = 0 /\ o.seconds = 0

\* UtcOffset::is_negative
is_negative(o) == o.hours < 0 \/ o.minutes < 0 \/ o.seconds < 0

\* UtcOffset::UTC
UTC == [hours |-> 0, minutes |-> 0, seconds |-> 0]

\* OffsetDateTime::unix_timestamp of (date, time, offset)
unix_timestamp(d, t, o) ==
    days_from_civil(d) * 86400 + t.hour * 3600 + t.minute * 60 + t.second
        - (o.hours * 3600 + o.minutes * 60 + o.seconds)

-----------------------------------------------------------------------------
(* Components and modifiers.  A Component is [kind, digits]; `digits` is    *)
(* the modifier::SubsecondDigits of a Subsecond and "OneOrMore" (its        *)
(* default) on every other kind, whose modifiers are the defaults.          *)

ComponentKinds ==
    {"Day", "Month", "Ordinal", "Weekday", "WeekNumber", "Year", "Hour",
     "Minute", "Period", "Second", "Subsecond", "OffsetHour", "OffsetMinute",
     "OffsetSecond", "Ignore", "UnixTimestamp"}

SubsecondDigits ==
    {"One", "Two", "Three", "Four", "Five", "Six", "Seven", "Eight", "Nine",
     "OneOrMore"}

Component(kind) == [kind |-> kind, digits |-> "OneOrMore"]

Subsecond(digits) == [kind |-> "Subsecond", digits |-> digits]

\* the fixed width of a SubsecondDigits other than OneOrMore
DigitsWidth(digits) ==
    CASE digits = "One" -> 1
      [] digits = "Two" -> 2
      [] digits = "Three" -> 3
      [] digits = "Four" -> 4
      [] digits = "Five" -> 5
      [] digits = "Six" -> 6
      [] digits = "Seven" -> 7
      [] digits = "Eight" -> 8
      [] digits = "Nine" -> 9

\* OneOrMore: the smallest width that loses no nonzero digit of nanos
RECURSIVE OneOrMoreWidth(_, _)
OneOrMoreWidth(nanos, w) ==
    IF w >= 9 \/ nanos % pow10(9 - w) = 0 THEN w ELSE OneOrMoreWidth(nanos, w + 1)

\* SubsecondDigits::as_format_repr(nanos) -> (width, value), as the tuple
\* <<width, value>>: element 1 is Rust's .0, element 2 is Rust's .1
as_format_repr(digits, nanos) ==
    LET width == IF digits = "OneOrMore" THEN OneOrMoreWidth(nanos, 1)
                 ELSE DigitsWidth(digits)
    IN  <<width, nanos \div pow10(9 - width)>>

\* Component::fmt_ignore testing the width (.0) of the Subsecond repr
Component_fmt_ignore_Width(self, d, t, o) ==
    CASE self.kind \in {"Day", "Month", "Ordinal", "Weekday", "WeekNumber",
                        "Year", "Hour", "Minute", "Period", "Ignore",
                        "UnixTimestamp"} -> FALSE
      [] self.kind = "Second" ->
            IF t = None THEN TRUE ELSE unwrap(t).second = 0
      [] self.kind = "Subsecond" ->
            IF t = None THEN TRUE
            ELSE as_format_repr(self.digits, unwrap(t).nanosecond)[1] = 0
      [] self.kind = "OffsetHour" ->
            IF o = None THEN TRUE ELSE is_utc(unwrap(o))
      [] self.kind = "OffsetMinute" ->
            IF o = None THEN TRUE ELSE unwrap(o).minutes = 0
      [] self.kind = "OffsetSecond" ->
            IF o = None THEN TRUE ELSE unwrap(o).seconds = 0

\* Component::fmt_ignore whose OffsetHour arm tests the hour field alone
Component_fmt_ignore_HourField(self, d, t, o) ==
    CASE self.kind \in {"Day", "Month", "Ordinal", "Weekday", "WeekNumber",
                        "Year", "Hour", "Minute", "Period", "Ignore",
                        "UnixTimestamp"} -> FALSE
      [] self.kind = "Second" ->
            IF t = None THEN TRUE ELSE unwrap(t).second = 0
      [] self.kind = "Subsecond" ->
            IF t = None THEN TRUE
            ELSE as_format_repr(self.digits, unwrap(t).nanosecond)[2] = 0
      [] self.kind = "OffsetHour" ->
            IF o = None THEN TRUE ELSE unwrap(o).hours = 0
      [] self.kind = "OffsetMinute" ->
            IF o = None THEN TRUE ELSE unwrap(o).minutes = 0
      [] self.kind = "OffsetSecond" ->
            IF o = None THEN TRUE ELSE unwrap(o).seconds = 0

\* Component::fmt_ignore treating the Ignore marker as ignorable
Component_fmt_ignore_IgnoreKind(self, d, t, o) ==
    CASE self.kind \in {"Day", "Month", "Ordinal", "Weekday", "WeekNumber",
                        "Year", "Hour", "Minute", "Period", 
                        "UnixTimestamp"} -> FALSE
      [] self.kind = "Ignore" -> TRUE
      [] self.kind = "Second" ->
            IF t = None THEN TRUE ELSE unwrap(t).second = 0
      [] self.kind = "Subsecond" ->
            IF t = None THEN TRUE
            ELSE as_format_repr(self.digits, unwrap(t).nanosecond)[2] = 0
      [] self.kind = "OffsetHour" ->
            IF o = None THEN TRUE ELSE is_utc(unwrap(o))
      [] self.kind = "OffsetMinute" ->
            IF o = None THEN TRUE ELSE unwrap(o).minutes = 0
      [] self.kind = "OffsetSecond" ->
            IF o = None THEN TRUE ELSE unwrap(o).seconds = 0

\* Component::fmt_ignore whose Second arm is unwrap_or(false)
Component_fmt_ignore_SecondNeedsTime(self, d, t, o) ==
    CASE self.kind \in {"Day", "Month", "Ordinal", "Weekday", "WeekNumber",
                        "Year", "Hour", "Minute", "Period", "Ignore",
                        "UnixTimestamp"} -> FALSE
      [] self.kind = "Second" ->
            IF t = None THEN FALSE ELSE unwrap(t).second = 0
      [] self.kind = "Subsecond" ->
            IF t = None THEN TRUE
            ELSE as_format_repr(self.digits, unwrap(t).nanosecond)[2] = 0
      [] self.kind = "OffsetHour" ->
            IF o = None THEN TRUE ELSE is_utc(unwrap(o))
      [] self.kind = "OffsetMinute" ->
            IF o = None THEN TRUE ELSE unwrap(o).minutes = 0
      [] self.kind = "OffsetSecond" ->
            IF o = None THEN TRUE ELSE unwrap(o).seconds = 0

\* Component::fmt_ignore
Component_fmt_ignore(self, d, t, o) ==
    CASE self.kind \in {"Day", "Month", "Ordinal", "Weekday", "WeekNumber",
                        "Year", "Hour", "Minute", "Period", "Ignore",
                        "UnixTimestamp"} -> FALSE
      [] self.kind = "Second" ->
            IF t = None THEN TRUE ELSE unwrap(t).second = 0
      [] self.kind = "Subsecond" ->
            IF t = None THEN TRUE
            ELSE as_format_repr(self.digits, unwrap(t).nanosecond)[2] = 0
      [] self.kind = "OffsetHour" ->
            IF o = None THEN TRUE ELSE is_utc(unwrap(o))
      [] self.kind = "OffsetMinute" ->
            IF o = None THEN TRUE ELSE unwrap(o).minutes = 0
      [] self.kind = "OffsetSecond" ->
            IF o = None THEN TRUE ELSE unwrap(o).seconds = 0

\* the bytes a component renders under its (default) modifier
component_bytes(component, d, t, o) ==
    CASE component.kind = "Day" -> pad_zero(2, d.day)
      [] component.kind = "Month" -> pad_zero(2, d.month)
      [] component.kind = "Ordinal" -> pad_zero(3, ordinal(d))
      [] component.kind = "Weekday" -> WEEKDAY_NAMES[number_days_from_monday(d) + 1]
      [] component.kind = "WeekNumber" -> pad_zero(2, iso_week(d))
      [] component.kind = "Year" ->
            (IF d.year < 0 THEN <<"-">> ELSE <<>>) \o pad_zero(4, abs(d.year))
      [] component.kind = "Hour" -> pad_zero(2, t.hour)
      [] component.kind = "Minute" -> pad_zero(2, t.minute)
      [] component.kind = "Period" ->
            IF t.hour < 12 THEN <<"A", "M">> ELSE <<"P", "M">>
      [] component.kind = "Second" -> pad_zero(2, t.second)
      [] component.kind = "Subsecond" ->
            LET repr == as_format_repr(component.digits, t.nanosecond)
            IN  pad_zero(repr[1], repr[2])
      [] component.kind = "OffsetHour" ->
            (IF is_negative(o) THEN <<"-">> ELSE <<>>) \o pad_zero(2, abs(o.hours))
      [] component.kind = "OffsetMinute" -> pad_zero(2, abs(o.minutes))
      [] component.kind = "OffsetSecond" -> pad_zero(2, abs(o.seconds))
      [] component.kind = "Ignore" -> <<>>
      [] component.kind = "UnixTimestamp" ->
            LET ts == unix_timestamp(d, t, o)
            IN  (IF ts < 0 THEN <<"-">> ELSE <<>>) \o itoa(abs(ts))

\* does the projection hold the slot(s) the component's renderer reads
HasSlot(component, d, t, o) ==
    CASE component.kind \in {"Day", "Month", "Ordinal", "Weekday", "WeekNumber",
                             "Year"} -> d # None
      [] component.kind \in {"Hour", "Minute", "Period", "Second",
                             "Subsecond"} -> t # None
      [] component.kind \in {"OffsetHour", "OffsetMinute", "OffsetSecond"} ->
            o # None
      [] component.kind = "Ignore" -> TRUE
      [] component.kind = "UnixTimestamp" -> d # None /\ t # None /\ o # None

\* formatting::format_component: the per-kind renderer pulls the value it
\* needs from the projection, or fails with InsufficientTypeInformation
format_component(out, component, d, t, o) ==
    IF ~HasSlot(component, d, t, o)
    THEN [output |-> out, res |-> Err(InsufficientTypeInformation)]
    ELSE write(out, component_bytes(component,
                                    IF d = None THEN None ELSE unwrap(d),
                                    IF t = None THEN None ELSE unwrap(t),
                                    IF o = None THEN None ELSE unwrap(o)))

-----------------------------------------------------------------------------
(* Format items.  FormatItem<'a> and OwnedFormatItem are both the record    *)
(* [tag, lit, comp, kids]: lit is a Literal's bytes, comp a Component's     *)
(* component, kids the children of a Compound or First and the one wrapped  *)
(* item of an Optional.                                                     *)

NoComponent == [kind |-> "", digits |-> ""]

Literal(bytes) == [tag |-> "Literal", lit |-> bytes, comp |-> NoComponent, kids |-> <<>>]

ComponentItem(c) == [tag |-> "Component", lit |-> <<>>, comp |-> c, kids |-> <<>>]

Compound(children) == [tag |-> "Compound", lit |-> <<>>, comp |-> NoComponent, kids |-> children]

Optional(child) == [tag |-> "Optional", lit |-> <<>>, comp |-> NoComponent, kids |-> <<child>>]

First(children) == [tag |-> "First", lit |-> <<>>, comp |-> NoComponent, kids |-> children]

RECURSIVE FormatItem_fmt_ignore(_, _, _, _)
RECURSIVE FormatItemSlice_fmt_ignore(_, _, _, _)
RECURSIVE FormatItem_format_into(_, _, _, _, _, _)
RECURSIVE FormatItemSlice_for(_, _, _, _, _)
RECURSIVE FormatItemSlice_format_into(_, _, _, _, _, _)
RECURSIVE OwnedFormatItem_fmt_ignore(_, _, _, _)
RECURSIVE OwnedFormatItemSlice_fmt_ignore(_, _, _, _)
RECURSIVE OwnedFormatItem_format_into(_, _, _, _, _, _)
RECURSIVE OwnedFormatItemSlice_for(_, _, _, _, _)
RECURSIVE OwnedFormatItemSlice_format_into(_, _, _, _, _, _)

\* FormatItem::fmt_ignore with the Literal arm returning false
FormatItem_fmt_ignore_LiteralFalse(self, d, t, o) ==
    CASE self.tag = "Literal" -> FALSE
      [] self.tag = "Component" -> Component_fmt_ignore(self.comp, d, t, o)
      [] self.tag = "Compound" -> FormatItemSlice_fmt_ignore(self.kids, d, t, o)
      [] self.tag = "Optional" -> FormatItem_fmt_ignore(self.kids[1], d, t, o)
      [] self.tag = "First" -> FormatItemSlice_fmt_ignore(self.kids, d, t, o)

\* FormatItem::fmt_ignore with the Compound arm returning false
FormatItem_fmt_ignore_CompoundFalse(self, d, t, o) ==
    CASE self.tag = "Literal" -> TRUE
      [] self.tag = "Component" -> Component_fmt_ignore(self.comp, d, t, o)
      [] self.tag = "Compound" -> FALSE
      [] self.tag = "Optional" -> FormatItem_fmt_ignore(self.kids[1], d, t, o)
      [] self.tag = "First" -> FormatItemSlice_fmt_ignore(self.kids, d, t, o)

\* <FormatItem as Sealed>::fmt_ignore
FormatItem_fmt_ignore(self, d, t, o) ==
    CASE self.tag = "Literal" -> TRUE
      [] self.tag = "Component" -> Component_fmt_ignore(self.comp, d, t, o)
      [] self.tag = "Compound" -> FormatItemSlice_fmt_ignore(self.kids, d, t, o)
      [] self.tag = "Optional" -> FormatItem_fmt_ignore(self.kids[1], d, t, o)
      [] self.tag = "First" -> FormatItemSlice_fmt_ignore(self.kids, d, t, o)

\* [FormatItem]::fmt_ignore that stops after the first element
FormatItemSlice_fmt_ignore_HeadOnly(self, d, t, o) ==
    IF self = <<>> THEN TRUE
    ELSE FormatItem_fmt_ignore(Head(self), d, t, o)

\* <[FormatItem] as Sealed>::fmt_ignore: self.iter().all(|i| i.fmt_ignore(..))
FormatItemSlice_fmt_ignore(self, d, t, o) ==
    IF self = <<>> THEN TRUE
    ELSE IF ~FormatItem_fmt_ignore(Head(self), d, t, o) THEN FALSE
    ELSE FormatItemSlice_fmt_ignore(Tail(self), d, t, o)

\* FormatItem::format_into whose Optional arm passes optional = false
FormatItem_format_into_OptionalFalse(self, out, opt, d, t, o) ==
    IF opt /\ FormatItem_fmt_ignore(self, d, t, o)
    THEN [output |-> out, res |-> Ok(0)]
    ELSE CASE self.tag = "Literal" -> write(out, self.lit)
           [] self.tag = "Component" -> format_component(out, self.comp, d, t, o)
           [] self.tag = "Compound" ->
                 FormatItemSlice_format_into(self.kids, out, FALSE, d, t, o)
           [] self.tag = "Optional" ->
                 FormatItem_format_into(self.kids[1], out, FALSE, d, t, o)
           [] self.tag = "First" ->
                 IF self.kids = <<>> THEN [output |-> out, res |-> Ok(0)]
                 ELSE FormatItem_format_into(Head(self.kids), out, FALSE, d, t, o)

\* FormatItem::format_into whose early return tests `optional || fmt_ignore`
FormatItem_format_into_OrIgnore(self, out, opt, d, t, o) ==
    IF opt \/ FormatItem_fmt_ignore(self, d, t, o)
    THEN [output |-> out, res |-> Ok(0)]
    ELSE CASE self.tag = "Literal" -> write(out, self.lit)
           [] self.tag = "Component" -> format_component(out, self.comp, d, t, o)
           [] self.tag = "Compound" ->
                 FormatItemSlice_format_into(self.kids, out, FALSE, d, t, o)
           [] self.tag = "Optional" ->
                 FormatItem_format_into(self.kids[1], out, TRUE, d, t, o)
           [] self.tag = "First" ->
                 IF self.kids = <<>> THEN [output |-> out, res |-> Ok(0)]
                 ELSE FormatItem_format_into(Head(self.kids), out, FALSE, d, t, o)

\* FormatItem::format_into whose First arm evaluates every alternative
FormatItem_format_into_FirstAll(self, out, opt, d, t, o) ==
    IF opt /\ FormatItem_fmt_ignore(self, d, t, o)
    THEN [output |-> out, res |-> Ok(0)]
    ELSE CASE self.tag = "Literal" -> write(out, self.lit)
           [] self.tag = "Component" -> format_component(out, self.comp, d, t, o)
           [] self.tag = "Compound" ->
                 FormatItemSlice_format_into(self.kids, out, FALSE, d, t, o)
           [] self.tag = "Optional" ->
                 FormatItem_format_into(self.kids[1], out, TRUE, d, t, o)
           [] self.tag = "First" ->
                 FormatItemSlice_format_into(self.kids, out, FALSE, d, t, o)

\* <FormatItem as Sealed>::format_into
FormatItem_format_into(self, out, opt, d, t, o) ==
    IF opt /\ FormatItem_fmt_ignore(self, d, t, o)
    THEN [output |-> out, res |-> Ok(0)]
    ELSE CASE self.tag = "Literal" -> write(out, self.lit)
           [] self.tag = "Component" -> format_component(out, self.comp, d, t, o)
           [] self.tag = "Compound" ->
                 FormatItemSlice_format_into(self.kids, out, FALSE, d, t, o)
           [] self.tag = "Optional" ->
                 FormatItem_format_into(self.kids[1], out, TRUE, d, t, o)
           [] self.tag = "First" ->
                 IF self.kids = <<>> THEN [output |-> out, res |-> Ok(0)]
                 ELSE FormatItem_format_into(Head(self.kids), out, FALSE, d, t, o)

\* the loop of <[FormatItem] as Sealed>::format_into handing `true` to each child
FormatItemSlice_for_Suppressible(st, rest, d, t, o) ==
    IF st.res.kind # "Ok" \/ rest = <<>>
    THEN st
    ELSE FormatItemSlice_for(
             AddBytes(st, FormatItem_format_into(Head(rest), st.output, TRUE, d, t, o)),
             Tail(rest), d, t, o)

\* the loop of <[FormatItem] as Sealed>::format_into:
\* for item in self.iter() { bytes += item.format_into(output, false, ..)?; }
FormatItemSlice_for(st, rest, d, t, o) ==
    IF st.res.kind # "Ok" \/ rest = <<>>
    THEN st
    ELSE FormatItemSlice_for(
             AddBytes(st, FormatItem_format_into(Head(rest), st.output, FALSE, d, t, o)),
             Tail(rest), d, t, o)

\* <[FormatItem] as Sealed>::format_into
FormatItemSlice_format_into(self, out, opt, d, t, o) ==
    IF opt /\ FormatItemSlice_fmt_ignore(self, d, t, o)
    THEN [output |-> out, res |-> Ok(0)]
    ELSE FormatItemSlice_for([output |-> out, res |-> Ok(0)], self, d, t, o)

\* <OwnedFormatItem as Sealed>::fmt_ignore
OwnedFormatItem_fmt_ignore(self, d, t, o) ==
    CASE self.tag = "Literal" -> TRUE
      [] self.tag = "Component" -> Component_fmt_ignore(self.comp, d, t, o)
      [] self.tag = "Compound" -> OwnedFormatItemSlice_fmt_ignore(self.kids, d, t, o)
      [] self.tag = "Optional" -> OwnedFormatItem_fmt_ignore(self.kids[1], d, t, o)
      [] self.tag = "First" -> OwnedFormatItemSlice_fmt_ignore(self.kids, d, t, o)

\* <[OwnedFormatItem] as Sealed>::fmt_ignore: self.iter().all(|i| i.fmt_ignore(..))
OwnedFormatItemSlice_fmt_ignore(self, d, t, o) ==
    IF self = <<>> THEN TRUE
    ELSE IF ~OwnedFormatItem_fmt_ignore(Head(self), d, t, o) THEN FALSE
    ELSE OwnedFormatItemSlice_fmt_ignore(Tail(self), d, t, o)

\* <OwnedFormatItem as Sealed>::format_into
OwnedFormatItem_format_into(self, out, opt, d, t, o) ==
    IF opt /\ OwnedFormatItem_fmt_ignore(self, d, t, o)
    THEN [output |-> out, res |-> Ok(0)]
    ELSE CASE self.tag = "Literal" -> write(out, self.lit)
           [] self.tag = "Component" -> format_component(out, self.comp, d, t, o)
           [] self.tag = "Compound" ->
                 OwnedFormatItemSlice_format_into(self.kids, out, FALSE, d, t, o)
           [] self.tag = "Optional" ->
                 OwnedFormatItem_format_into(self.kids[1], out, TRUE, d, t, o)
           [] self.tag = "First" ->
                 IF self.kids = <<>> THEN [output |-> out, res |-> Ok(0)]
                 ELSE OwnedFormatItem_format_into(Head(self.kids), out, FALSE, d, t, o)

\* the loop of <[OwnedFormatItem] as Sealed>::format_into:
\* for item in self.iter() { bytes += item.format_into(output, false, ..)?; }
OwnedFormatItemSlice_for(st, rest, d, t, o) ==
    IF st.res.kind # "Ok" \/ rest = <<>>
    THEN st
    ELSE OwnedFormatItemSlice_for(
             AddBytes(st, OwnedFormatItem_format_into(Head(rest), st.output, FALSE, d, t, o)),
             Tail(rest), d, t, o)

\* <[OwnedFormatItem] as Sealed>::format_into
OwnedFormatItemSlice_format_into(self, out, opt, d, t, o) ==
    IF opt /\ OwnedFormatItemSlice_fmt_ignore(self, d, t, o)
    THEN [output |-> out, res |-> Ok(0)]
    ELSE OwnedFormatItemSlice_for([output |-> out, res |-> Ok(0)], self, d, t, o)

-----------------------------------------------------------------------------
(* Well-known formats *)

\* <Rfc2822 as Sealed>::fmt_ignore
Rfc2822_fmt_ignore(d, t, o) == FALSE

\* the writes of <Rfc2822 as Sealed>::format_into, after its checks
Rfc2822_write(out, date_, time_, offset_) ==
    write_chunks([output |-> out, res |-> Ok(0)], <<
        SubSeq(WEEKDAY_NAMES[number_days_from_monday(date_) + 1], 1, 3),
        <<",", " ">>,
        pad_zero(2, date_.day),
        <<" ">>,
        SubSeq(MONTH_NAMES[date_.month], 1, 3),
        <<" ">>,
        pad_zero(4, date_.year),
        <<" ">>,
        pad_zero(2, time_.hour),
        <<":">>,
        pad_zero(2, time_.minute),
        <<":">>,
        pad_zero(2, time_.second),
        <<" ">>,
        IF is_negative(offset_) THEN <<"-">> ELSE <<"+">>,
        pad_zero(2, abs(offset_.hours)),
        pad_zero(2, abs(offset_.minutes)) >>)

\* Rfc2822::format_into without the seconds_past_minute check
Rfc2822_format_into_NoOffsetCheck(out, opt, d, t, o) ==
    IF d = None THEN [output |-> out, res |-> Err(InsufficientTypeInformation)]
    ELSE IF t = None THEN [output |-> out, res |-> Err(InsufficientTypeInformation)]
    ELSE IF o = None THEN [output |-> out, res |-> Err(InsufficientTypeInformation)]
    ELSE IF unwrap(d).year < 1900
    THEN [output |-> out, res |-> Err(InvalidComponent("year"))]
    ELSE Rfc2822_write(out, unwrap(d), unwrap(t), unwrap(o))

\* Rfc2822::format_into checking the offset before the year
Rfc2822_format_into_OffsetFirst(out, opt, d, t, o) ==
    IF d = None THEN [output |-> out, res |-> Err(InsufficientTypeInformation)]
    ELSE IF t = None THEN [output |-> out, res |-> Err(InsufficientTypeInformation)]
    ELSE IF o = None THEN [output |-> out, res |-> Err(InsufficientTypeInformation)]
    ELSE IF unwrap(o).seconds # 0
    THEN [output |-> out, res |-> Err(InvalidComponent("offset_second"))]
    ELSE IF unwrap(d).year < 1900
    THEN [output |-> out, res |-> Err(InvalidComponent("year"))]
    ELSE Rfc2822_write(out, unwrap(d), unwrap(t), unwrap(o))

\* <Rfc2822 as Sealed>::format_into
Rfc2822_format_into(out, opt, d, t, o) ==
    IF d = None THEN [output |-> out, res |-> Err(InsufficientTypeInformation)]
    ELSE IF t = None THEN [output |-> out, res |-> Err(InsufficientTypeInformation)]
    ELSE IF o = None THEN [output |-> out, res |-> Err(InsufficientTypeInformation)]
    ELSE IF unwrap(d).year < 1900
    THEN [output |-> out, res |-> Err(InvalidComponent("year"))]
    ELSE IF unwrap(o).seconds # 0
    THEN [output |-> out, res |-> Err(InvalidComponent("offset_second"))]
    ELSE Rfc2822_write(out, unwrap(d), unwrap(t), unwrap(o))

\* the format_number_pad_zero::<WIDTH> calls of <Rfc2822 as Sealed>::format_into,
\* in call order, each as <<WIDTH, value>>
Rfc2822_pad_calls(date_, time_, offset_) ==
    << <<2, date_.day>>, <<4, date_.year>>,
       <<2, time_.hour>>, <<2, time_.minute>>, <<2, time_.second>>,
       <<2, abs(offset_.hours)>>, <<2, abs(offset_.minutes)>> >>

\* <Rfc3339 as Sealed>::fmt_ignore
Rfc3339_fmt_ignore(d, t, o) == FALSE

\* the format_number_pad_zero::<WIDTH> calls of <Rfc3339 as Sealed>::format_into,
\* in call order, each as <<WIDTH, value>>
Rfc3339_pad_calls(date_, time_, offset_) ==
    << <<4, date_.year>>, <<2, date_.month>>, <<2, date_.day>>,
       <<2, time_.hour>>, <<2, time_.minute>>, <<2, time_.second>> >>
    \o (IF time_.nanosecond # 0
        THEN << as_format_repr("OneOrMore", time_.nanosecond) >>
        ELSE << >>)
    \o (IF offset_ = UTC
        THEN << >>
        ELSE << <<2, abs(offset_.hours)>>, <<2, abs(offset_.minutes)>> >>)

\* the Rfc3339 subsecond block formatting all nine digits
Rfc3339_subsecond_Nine(st, time_) ==
    IF st.res.kind # "Ok" \/ time_.nanosecond = 0 THEN st
    ELSE LET nanos == time_.nanosecond
             repr == as_format_repr("Nine", nanos)
             width == repr[1]
             val == repr[2]
             dot == AddBytes(st, write(st.output, <<".">>))
         IN  IF dot.res.kind # "Ok" THEN dot
             ELSE IF width \in 1..9
             THEN AddBytes(dot, format_number_pad_zero(width, dot.output, val))
             ELSE [output |-> dot.output, res |-> Panic("unreachable")]

\* the subsecond block of <Rfc3339 as Sealed>::format_into
Rfc3339_subsecond(st, time_) ==
    IF st.res.kind # "Ok" \/ time_.nanosecond = 0 THEN st
    ELSE LET nanos == time_.nanosecond
             repr == as_format_repr("OneOrMore", nanos)
             width == repr[1]
             val == repr[2]
             dot == AddBytes(st, write(st.output, <<".">>))
         IN  IF dot.res.kind # "Ok" THEN dot
             ELSE IF width \in 1..9
             THEN AddBytes(dot, format_number_pad_zero(width, dot.output, val))
             ELSE [output |-> dot.output, res |-> Panic("unreachable")]

\* the writes of <Rfc3339 as Sealed>::format_into, after its checks
Rfc3339_write(out, date_, time_, offset_) ==
    LET hms == write_chunks([output |-> out, res |-> Ok(0)], <<
                   pad_zero(4, date_.year),
                   <<"-">>,
                   pad_zero(2, date_.month),
                   <<"-">>,
                   pad_zero(2, date_.day),
                   <<"T">>,
                   pad_zero(2, time_.hour),
                   <<":">>,
                   pad_zero(2, time_.minute),
                   <<":">>,
                   pad_zero(2, time_.second) >>)
        sub == Rfc3339_subsecond(hms, time_)
    IN  IF offset_ = UTC
        THEN write_chunks(sub, << <<"Z">> >>)
        ELSE write_chunks(sub, <<
                 IF is_negative(offset_) THEN <<"-">> ELSE <<"+">>,
                 pad_zero(2, abs(offset_.hours)),
                 <<":">>,
                 pad_zero(2, abs(offset_.minutes)) >>)

\* Rfc3339::format_into validating the date before unwrapping time and offset
Rfc3339_format_into_ValidateFirst(out, opt, d, t, o) ==
    IF d = None THEN [output |-> out, res |-> Err(InsufficientTypeInformation)]
    ELSE IF ~(unwrap(d).year >= 0 /\ unwrap(d).year < 10000)
    THEN [output |-> out, res |-> Err(InvalidComponent("year"))]
    ELSE IF t = None THEN [output |-> out, res |-> Err(InsufficientTypeInformation)]
    ELSE IF o = None THEN [output |-> out, res |-> Err(InsufficientTypeInformation)]
    ELSE IF unwrap(o).seconds # 0
    THEN [output |-> out, res |-> Err(InvalidComponent("offset_second"))]
    ELSE Rfc3339_write(out, unwrap(d), unwrap(t), unwrap(o))

\* Rfc3339::format_into writing the year before it checks the offset
Rfc3339_format_into_WriteBeforeCheck(out, opt, d, t, o) ==
    IF d = None THEN [output |-> out, res |-> Err(InsufficientTypeInformation)]
    ELSE IF t = None THEN [output |-> out, res |-> Err(InsufficientTypeInformation)]
    ELSE IF o = None THEN [output |-> out, res |-> Err(InsufficientTypeInformation)]
    ELSE IF ~(unwrap(d).year >= 0 /\ unwrap(d).year < 10000)
    THEN [output |-> out, res |-> Err(InvalidComponent("year"))]
    ELSE IF unwrap(o).seconds # 0
    THEN [output |-> format_number_pad_zero(4, out, unwrap(d).year).output,
          res |-> Err(InvalidComponent("offset_second"))]
    ELSE Rfc3339_write(out, unwrap(d), unwrap(t), unwrap(o))

\* <Rfc3339 as Sealed>::format_into
Rfc3339_format_into(out, opt, d, t, o) ==
    IF d = None THEN [output |-> out, res |-> Err(InsufficientTypeInformation)]
    ELSE IF t = None THEN [output |-> out, res |-> Err(InsufficientTypeInformation)]
    ELSE IF o = None THEN [output |-> out, res |-> Err(InsufficientTypeInformation)]
    ELSE IF ~(unwrap(d).year >= 0 /\ unwrap(d).year < 10000)
    THEN [output |-> out, res |-> Err(InvalidComponent("year"))]
    ELSE IF unwrap(o).seconds # 0
    THEN [output |-> out, res |-> Err(InvalidComponent("offset_second"))]
    ELSE Rfc3339_write(out, unwrap(d), unwrap(t), unwrap(o))

\* iso8601::format_date: the extended calendar date YYYY-MM-DD
iso8601_format_date(out, date_) ==
    write_chunks([output |-> out, res |-> Ok(0)],
                 <<pad_zero(4, date_.year), <<"-">>, pad_zero(2, date_.month),
                   <<"-">>, pad_zero(2, date_.day)>>)

\* iso8601::format_time: Thh:mm:ss
iso8601_format_time(out, time_) ==
    write_chunks([output |-> out, res |-> Ok(0)],
                 << <<"T">>, pad_zero(2, time_.hour), <<":">>, pad_zero(2, time_.minute),
                   <<":">>, pad_zero(2, time_.second)>>)

\* iso8601::format_offset: Z or +hh:mm
iso8601_format_offset(out, offset_) ==
    IF is_utc(offset_) THEN write(out, <<"Z">>)
    ELSE write_chunks([output |-> out, res |-> Ok(0)],
                      <<IF is_negative(offset_) THEN <<"-">> ELSE <<"+">>,
                        pad_zero(2, abs(offset_.hours)), <<":">>,
                        pad_zero(2, abs(offset_.minutes))>>)

\* <Iso8601<CONFIG> as Sealed>::fmt_ignore
Iso8601_fmt_ignore(self, d, t, o) == FALSE

\* the Iso8601 block unwrapping its slot before looking at the flag
Iso8601_part_AlwaysUnwrap(st, flag, slot, part) ==
    IF st.res.kind # "Ok" THEN st
    ELSE IF slot = None
    THEN [output |-> st.output, res |-> Err(InsufficientTypeInformation)]
    ELSE IF ~flag THEN st
    ELSE AddBytes(st, CASE part = "date" -> iso8601_format_date(st.output, unwrap(slot))
                        [] part = "time" -> iso8601_format_time(st.output, unwrap(slot))
                        [] part = "offset" -> iso8601_format_offset(st.output, unwrap(slot)))

\* one `if Self::FORMAT_x { let x = x.ok_or(..)?; bytes += format_x(output, x)?; }`
\* block of <Iso8601<CONFIG> as Sealed>::format_into
Iso8601_part(st, flag, slot, part) ==
    IF st.res.kind # "Ok" \/ ~flag THEN st
    ELSE IF slot = None
    THEN [output |-> st.output, res |-> Err(InsufficientTypeInformation)]
    ELSE AddBytes(st, CASE part = "date" -> iso8601_format_date(st.output, unwrap(slot))
                        [] part = "time" -> iso8601_format_time(st.output, unwrap(slot))
                        [] part = "offset" -> iso8601_format_offset(st.output, unwrap(slot)))

\* Iso8601::format_into without the bytes == 0 panic
Iso8601_format_into_NoPanic(self, out, opt, d, t, o) ==
    LET st0 == [output |-> out, res |-> Ok(0)]
        st1 == Iso8601_part(st0, self.FORMAT_DATE, d, "date")
        st2 == Iso8601_part(st1, self.FORMAT_TIME, t, "time")
    IN  Iso8601_part(st2, self.FORMAT_OFFSET, o, "offset")

\* <Iso8601<CONFIG> as Sealed>::format_into
Iso8601_format_into(self, out, opt, d, t, o) ==
    LET st0 == [output |-> out, res |-> Ok(0)]
        st1 == Iso8601_part(st0, self.FORMAT_DATE, d, "date")
        st2 == Iso8601_part(st1, self.FORMAT_TIME, t, "time")
        st3 == Iso8601_part(st2, self.FORMAT_OFFSET, o, "offset")
    IN  IF st3.res.kind = "Ok" /\ st3.res.bytes = 0
        THEN [output |-> st3.output,
              res |-> Panic("attempted to format a parsing-only format description")]
        ELSE st3

-----------------------------------------------------------------------------
(* The Sealed trait: dispatch on the receiver's type *)

Formats ==
    {"FormatItem", "[FormatItem]", "OwnedFormatItem", "[OwnedFormatItem]",
     "Rfc2822", "Rfc3339", "Iso8601"}

\* Sealed::fmt_ignore
Sealed_fmt_ignore(d, t, o) ==
    CASE format = "FormatItem" -> FormatItem_fmt_ignore(item, d, t, o)
      [] format = "[FormatItem]" -> FormatItemSlice_fmt_ignore(items, d, t, o)
      [] format = "OwnedFormatItem" -> OwnedFormatItem_fmt_ignore(item, d, t, o)
      [] format = "[OwnedFormatItem]" -> OwnedFormatItemSlice_fmt_ignore(items, d, t, o)
      [] format = "Rfc2822" -> Rfc2822_fmt_ignore(d, t, o)
      [] format = "Rfc3339" -> Rfc3339_fmt_ignore(d, t, o)
      [] format = "Iso8601" -> Iso8601_fmt_ignore(config, d, t, o)

\* Sealed::format_into
Sealed_format_into(out, opt, d, t, o) ==
    CASE format = "FormatItem" -> FormatItem_format_into(item, out, opt, d, t, o)
      [] format = "[FormatItem]" -> FormatItemSlice_format_into(items, out, opt, d, t, o)
      [] format = "OwnedFormatItem" -> OwnedFormatItem_format_into(item, out, opt, d, t, o)
      [] format = "[OwnedFormatItem]" ->
            OwnedFormatItemSlice_format_into(items, out, opt, d, t, o)
      [] format = "Rfc2822" -> Rfc2822_format_into(out, opt, d, t, o)
      [] format = "Rfc3339" -> Rfc3339_format_into(out, opt, d, t, o)
      [] format = "Iso8601" -> Iso8601_format_into(config, out, opt, d, t, o)

-----------------------------------------------------------------------------
(* Inputs *)

MaxKids == 2        \* longest Compound / First / slice drawn

SmallSink == 3      \* capacity of the fixed-size sink

SeqsUpTo(S, n) == UNION {[1..k -> S] : k \in 0..n}

D(y, m, dd) == [year |-> y, month |-> m, day |-> dd]

T(h, m, sec, ns) == [hour |-> h, minute |-> m, second |-> sec, nanosecond |-> ns]

O(h, m, sec) == [hours |-> h, minutes |-> m, seconds |-> sec]

Options(S) == {None} \cup {Some(v) : v \in S}

\* a Vec<u8> that already holds one byte; a fixed buffer of SmallSink bytes
Sinks == {[buf |-> <<"#">>, limit |-> None], [buf |-> <<>>, limit |-> Some(SmallSink)]}

NoConfig == [FORMAT_DATE |-> FALSE, FORMAT_TIME |-> FALSE, FORMAT_OFFSET |-> FALSE]

Configs == [FORMAT_DATE : BOOLEAN, FORMAT_TIME : BOOLEAN, FORMAT_OFFSET : BOOLEAN]

\* projections for format-item trees
TreeDates == {D(2024, 3, 14)}

TreeTimes == {T(0, 0, 0, 0), T(1, 2, 0, 500000000), T(1, 2, 3, 0)}

TreeOffsets == {UTC, O(-5, 0, -30)}

\* projections for single items and the well-known formats
Dates == {D(-1, 12, 31), D(0, 1, 1), D(1899, 12, 31), D(1900, 1, 1),
          D(2024, 3, 14), D(9999, 12, 31), D(10000, 1, 1)}

Times == {T(0, 0, 0, 0), T(0, 0, 0, 500000000), T(1, 2, 3, 0),
          T(13, 2, 3, 120000000), T(23, 59, 59, 999999999), T(7, 0, 0, 500)}

Offsets == {UTC, O(0, 30, 0), O(5, 30, 0), O(-5, 0, -30), O(0, 0, 30), O(-1, 0, 0)}

Components ==
    {Component(k) : k \in ComponentKinds} \cup {Subsecond(dg) : dg \in SubsecondDigits}

\* trees: leaves, then one and two levels of Compound / Optional / First
Leaves ==
    {Literal(<<".">>)} \cup
    {ComponentItem(Component(k)) : k \in {"Hour", "Second", "Subsecond", "OffsetSecond"}}

Level1 ==
    Leaves
    \cup {Compound(s) : s \in SeqsUpTo(Leaves, MaxKids)}
    \cup {First(s) : s \in SeqsUpTo(Leaves, MaxKids)}
    \cup {Optional(x) : x \in Leaves}

Nested ==
    {x \in Level1 : Len(x.kids) <= 1}

Level2 ==
    {Optional(x) : x \in Level1}
    \cup {Compound(<<a, b>>) : a \in Nested, b \in Leaves}
    \cup {First(<<a, b>>) : a \in Nested, b \in Leaves}

Trees == Level1 \cup Level2

\* serde's TIME_FORMAT
TIME_FORMAT == <<
    ComponentItem(Component("Hour")),
    Literal(<<":">>),
    ComponentItem(Component("Minute")),
    Literal(<<":">>),
    ComponentItem(Component("Second")),
    Optional(Compound(<<Literal(<<".">>), ComponentItem(Component("Subsecond"))>>)) >>

Slices ==
    SeqsUpTo(Leaves \cup {Optional(x) : x \in Leaves}, MaxKids) \cup {TIME_FORMAT}

-----------------------------------------------------------------------------
(* State machine *)

InitCall ==
    /\ optional \in BOOLEAN
    /\ output \in Sinks
    /\ ignore = None
    /\ result = NotCalled
    /\ pc = "ready"

\* a format-item tree
InitTree ==
    /\ format \in {"FormatItem", "OwnedFormatItem"}
    /\ item \in Trees
    /\ items = <<>>
    /\ config = NoConfig
    /\ date \in Options(TreeDates)
    /\ time \in Options(TreeTimes)
    /\ offset \in Options(TreeOffsets)

\* a single literal or component
InitLeaf ==
    /\ format \in {"FormatItem", "OwnedFormatItem"}
    /\ item \in {Literal(<<>>), Literal(<<"a", "b">>)} \cup {ComponentItem(c) : c \in Components}
    /\ items = <<>>
    /\ config = NoConfig
    /\ date \in Options({D(2024, 3, 14), D(2021, 1, 3)})
    /\ time \in Options(Times)
    /\ offset \in Options(Offsets)

\* a slice of format items
InitSlice ==
    /\ format \in {"[FormatItem]", "[OwnedFormatItem]"}
    /\ item = Literal(<<>>)
    /\ items \in Slices
    /\ config = NoConfig
    /\ date \in Options(TreeDates)
    /\ time \in Options(TreeTimes)
    /\ offset \in Options(TreeOffsets)

\* Rfc2822, Rfc3339
InitRfc ==
    /\ format \in {"Rfc2822", "Rfc3339"}
    /\ item = Literal(<<>>)
    /\ items = <<>>
    /\ config = NoConfig
    /\ date \in Options(Dates)
    /\ time \in Options(Times)
    /\ offset \in Options(Offsets)

\* Iso8601<CONFIG>
InitIso8601 ==
    /\ format = "Iso8601"
    /\ item = Literal(<<>>)
    /\ items = <<>>
    /\ config \in Configs
    /\ date \in Options({D(2024, 3, 14)})
    /\ time \in Options({T(1, 2, 3, 0)})
    /\ offset \in Options({UTC, O(5, 30, 0)})

Init ==
    /\ InitCall
    /\ \/ InitTree
       \/ InitLeaf
       \/ InitSlice
       \/ InitRfc
       \/ InitIso8601

\* a call of Sealed::fmt_ignore(&self, date, time, offset)
FmtIgnore ==
    /\ pc = "ready"
    /\ ignore' = Some(Sealed_fmt_ignore(date, time, offset))
    /\ pc' = "fmt_ignore"
    /\ UNCHANGED <<format, item, items, config, optional, date, time, offset,
                   output, result>>

\* a call of Sealed::format_into(&self, output, optional, date, time, offset)
FormatInto ==
    /\ pc = "ready"
    /\ LET r == Sealed_format_into(output, optional, date, time, offset)
       IN  /\ output' = r.output
           /\ result' = r.res
    /\ pc' = "format_into"
    /\ UNCHANGED <<format, item, items, config, optional, date, time, offset,
                   ignore>>

Next == FmtIgnore \/ FormatInto

Spec == Init /\ [][Next]_vars

TypeOK ==
    /\ format \in Formats
    /\ pc \in {"ready", "fmt_ignore", "format_into"}
    /\ result.kind \in {"NotCalled", "Ok", "Err", "Panic"}
    /\ ignore \in Options(BOOLEAN)
    /\ output.limit # None => Len(output.buf) <= unwrap(output.limit)

-----------------------------------------------------------------------------
(* Properties *)

\* the receiver is a single format item (borrowed or owned)
IsItem == format \in {"FormatItem", "OwnedFormatItem"}

\* the receiver is a slice of format items (borrowed or owned)
IsSlice == format \in {"[FormatItem]", "[OwnedFormatItem]"}

\* fmt_ignore of a subtree x of the receiver, under the call's projection
SubtreeIgnore(x) ==
    IF format \in {"FormatItem", "[FormatItem]"}
    THEN FormatItem_fmt_ignore(x, date, time, offset)
    ELSE OwnedFormatItem_fmt_ignore(x, date, time, offset)

\* format_into of a subtree x of the receiver into sink `out`
SubtreeFormatInto(x, out, opt) ==
    IF format \in {"FormatItem", "[FormatItem]"}
    THEN FormatItem_format_into(x, out, opt, date, time, offset)
    ELSE OwnedFormatItem_format_into(x, out, opt, date, time, offset)

\* C1 (as stated): fmt_ignore returns false for every Literal item, for any
\* projection and for both the borrowed and the owned item type.
C1_LiteralNeverIgnorable ==
    (pc = "fmt_ignore" /\ IsItem /\ item.tag = "Literal") => ignore = Some(FALSE)

\* C1 (amended): fmt_ignore returns true for every Literal item, for any
\* projection and for both the borrowed and the owned item type.
C1_LiteralAlwaysIgnorable ==
    (pc = "fmt_ignore" /\ IsItem /\ item.tag = "Literal") => ignore = Some(TRUE)

C1_Witness ==
    /\ pc = "fmt_ignore"
    /\ format = "OwnedFormatItem"
    /\ item = Literal(<<"a", "b">>)
    /\ date # None /\ time = None /\ offset # None
    /\ ignore = Some(TRUE)

\* C2: fmt_ignore of a First item equals fmt_ignore of its first alternative
\* alone, and a First with no alternative is ignorable.
C2_FirstIgnoreIsFirstAlternative ==
    (pc = "fmt_ignore" /\ IsItem /\ item.tag = "First") =>
        ignore = Some(IF item.kids = <<>> THEN TRUE ELSE SubtreeIgnore(item.kids[1]))

\* C3: evaluating Optional(X) with X ignorable, whatever `optional` is passed
\* for the Optional itself, returns Ok(0) and leaves the sink as it was.
C3_OptionalOfIgnorableWritesNothing ==
    [][(/\ pc = "ready" /\ pc' = "format_into"
        /\ IsItem /\ item.tag = "Optional"
        /\ SubtreeIgnore(item.kids[1]))
       => (result' = Ok(0) /\ output' = output)]_vars

C3_Witness ==
    /\ pc = "format_into"
    /\ IsItem /\ item.tag = "Optional" /\ ~optional
    /\ item.kids[1].tag = "Compound" /\ Len(item.kids[1].kids) = 2
    /\ item.kids[1].kids[2].tag = "Component"
    /\ SubtreeIgnore(item.kids[1])
    /\ time # None
    /\ result = Ok(0)

\* C4: evaluating Optional(X) with X not ignorable gives the outcome of
\* evaluating X itself with optional = false: the same sink contents and the
\* same byte count or error.
C4_OptionalOfNonIgnorableIsSubtree ==
    [][(/\ pc = "ready" /\ pc' = "format_into"
        /\ IsItem /\ item.tag = "Optional"
        /\ ~SubtreeIgnore(item.kids[1]))
       => [output |-> output', res |-> result'] =
              SubtreeFormatInto(item.kids[1], output, FALSE)]_vars

C4_Witness ==
    /\ pc = "format_into"
    /\ IsItem /\ item.tag = "Optional" /\ optional
    /\ ~SubtreeIgnore(item.kids[1])
    /\ result.kind = "Ok" /\ result.bytes > 0
    /\ Len(output.buf) = 1 + result.bytes

\* C5: a Compound, or a slice, is ignorable iff every one of its children is
\* ignorable (so the empty one is ignorable).
C5_CompoundIgnorableIffAllChildren ==
    /\ (pc = "fmt_ignore" /\ IsItem /\ item.tag = "Compound") =>
           ignore = Some(\A i \in 1..Len(item.kids) : SubtreeIgnore(item.kids[i]))
    /\ (pc = "fmt_ignore" /\ IsSlice) =>
           ignore = Some(\A i \in 1..Len(items) : SubtreeIgnore(items[i]))

C5_Witness ==
    /\ pc = "fmt_ignore"
    /\ IsItem /\ item.tag = "Compound" /\ Len(item.kids) = 2
    /\ SubtreeIgnore(item.kids[1]) /\ ~SubtreeIgnore(item.kids[2])
    /\ ignore = Some(FALSE)

\* the number of fractional digits a Subsecond with modifier `digits` formats
SubsecondDigitCount(digits, nanos) == as_format_repr(digits, nanos)[1]

\* the value those digits spell: nanos cut to the policy's width
SubsecondValueIsZero(digits, nanos) ==
    IF digits = "OneOrMore" THEN nanos = 0
    ELSE nanos < pow10(9 - DigitsWidth(digits))

\* C6 (as stated): with a time present, a Subsecond component is ignorable
\* iff the number of fractional digits formatted under its policy is 0; it
\* is ignorable when no time is present.
C6_SubsecondIgnorableIffNoDigits ==
    (pc = "fmt_ignore" /\ IsItem /\ item.tag = "Component"
        /\ item.comp.kind = "Subsecond") =>
        ignore = Some(IF time = None THEN TRUE
                      ELSE SubsecondDigitCount(item.comp.digits,
                                               unwrap(time).nanosecond) = 0)

\* C6 (amended): with a time present, a Subsecond component is ignorable iff
\* the value formatted under its policy (the nanoseconds cut to the policy's
\* digit width) is 0, the digit count itself being at least 1; it is
\* ignorable when no time is present; nanosecond = 500000000 makes it
\* non-ignorable and nanosecond = 0 ignorable under every policy.
C6_SubsecondIgnorableIffZeroValue ==
    (pc = "fmt_ignore" /\ IsItem /\ item.tag = "Component"
        /\ item.comp.kind = "Subsecond") =>
        /\ ignore = Some(IF time = None THEN TRUE
                         ELSE SubsecondValueIsZero(item.comp.digits,
                                                   unwrap(time).nanosecond))
        /\ time # None =>
               /\ SubsecondDigitCount(item.comp.digits, unwrap(time).nanosecond) >= 1
               /\ unwrap(time).nanosecond = 500000000 => ignore = Some(FALSE)
               /\ unwrap(time).nanosecond = 0 => ignore = Some(TRUE)

C6_Witness ==
    /\ pc = "fmt_ignore"
    /\ item = ComponentItem(Subsecond("Three"))
    /\ time # None /\ unwrap(time).nanosecond = 500
    /\ ignore = Some(TRUE)

\* the call is a well-known RFC encoder's format_into and has returned
RfcFormatted == pc = "format_into" /\ format \in {"Rfc2822", "Rfc3339"}

AllPresent == date # None /\ time # None /\ offset # None

\* the year passes the encoder's year check
YearAccepted ==
    IF format = "Rfc2822" THEN unwrap(date).year >= 1900
    ELSE unwrap(date).year >= 0 /\ unwrap(date).year < 10000

\* C7 (as stated): with all three slots present and an offset whose
\* seconds-past-minute is nonzero, Rfc2822 and Rfc3339 fail with
\* InvalidComponent("offset_second") whatever the date and time are.
C7_OffsetSecondAlwaysReported ==
    (RfcFormatted /\ AllPresent /\ unwrap(offset).seconds # 0) =>
        result = Err(InvalidComponent("offset_second"))

\* C7 (amended): with all three slots present, an offset whose
\* seconds-past-minute is nonzero and a year the format accepts, Rfc2822 and
\* Rfc3339 fail with InvalidComponent("offset_second") whatever the time is;
\* with a year outside the accepted range they fail with
\* InvalidComponent("year") instead.
C7_OffsetSecondReportedAfterYear ==
    (RfcFormatted /\ AllPresent /\ unwrap(offset).seconds # 0) =>
        result = Err(InvalidComponent(IF YearAccepted THEN "offset_second" ELSE "year"))

C7_Witness ==
    /\ RfcFormatted /\ AllPresent
    /\ format = "Rfc3339"
    /\ unwrap(offset).seconds # 0
    /\ unwrap(date).year = 9999
    /\ unwrap(time).nanosecond # 0
    /\ result = Err(InvalidComponent("offset_second"))

\* C8: with all three slots present and a year below 1900, Rfc2822 fails with
\* InvalidComponent("year") for every time and every offset, also when the
\* offset's seconds-past-minute is nonzero.
C8_Rfc2822YearBelow1900 ==
    (RfcFormatted /\ format = "Rfc2822" /\ AllPresent /\ unwrap(date).year < 1900) =>
        result = Err(InvalidComponent("year"))

C8_Witness ==
    /\ RfcFormatted /\ format = "Rfc2822" /\ AllPresent
    /\ unwrap(date).year = 1899
    /\ unwrap(offset).seconds # 0
    /\ result = Err(InvalidComponent("year"))

\* C9: Rfc2822 and Rfc3339 fail with InsufficientTypeInformation whenever a
\* slot is absent, also when a present year or offset would fail validation.
C9_MissingSlotReportedFirst ==
    (RfcFormatted /\ ~AllPresent) => result = Err(InsufficientTypeInformation)

C9_Witness ==
    /\ RfcFormatted
    /\ date # None /\ unwrap(date).year < 0
    /\ time = None
    /\ offset # None /\ unwrap(offset).seconds # 0
    /\ result = Err(InsufficientTypeInformation)

\* C10: Iso8601 formatting never returns Ok(0); with none of the emit flags
\* set format_into panics for every projection.
C10_Iso8601NeverOkZero ==
    (pc = "format_into" /\ format = "Iso8601") =>
        /\ result # Ok(0)
        /\ (~config.FORMAT_DATE /\ ~config.FORMAT_TIME /\ ~config.FORMAT_OFFSET) =>
               result.kind = "Panic"

C10_Witness ==
    /\ pc = "format_into" /\ format = "Iso8601"
    /\ ~config.FORMAT_DATE /\ ~config.FORMAT_TIME /\ ~config.FORMAT_OFFSET
    /\ date = None /\ time = None /\ offset = None
    /\ result.kind = "Panic"


\* the bytes an Iso8601 part appends to a sink that never fails
Iso8601PartBytes(flag, slot, part) ==
    IF ~flag \/ slot = None THEN <<>>
    ELSE LET vec == [buf |-> <<>>, limit |-> None]
         IN  CASE part = "date" -> iso8601_format_date(vec, unwrap(slot)).output.buf
               [] part = "time" -> iso8601_format_time(vec, unwrap(slot)).output.buf
               [] part = "offset" -> iso8601_format_offset(vec, unwrap(slot)).output.buf

\* some slot whose emit flag is set is absent
Iso8601SlotMissing ==
    \/ config.FORMAT_DATE /\ date = None
    \/ config.FORMAT_TIME /\ time = None
    \/ config.FORMAT_OFFSET /\ offset = None

\* C11: Iso8601 formatting with at least one emit flag set and a sink that
\* does not fail returns InsufficientTypeInformation iff a slot whose flag is
\* set is absent (an absent slot whose flag is unset causes no error), and on
\* success the sink has received the enabled parts in the order date, time,
\* offset.
C11_Iso8601MissingSlotAndOrder ==
    [][(/\ pc = "ready" /\ pc' = "format_into"
        /\ format = "Iso8601" /\ config # NoConfig
        /\ output.limit = None)
       => /\ (result' = Err(InsufficientTypeInformation)) <=> Iso8601SlotMissing
          /\ ~Iso8601SlotMissing =>
                /\ result'.kind = "Ok"
                /\ output'.buf = output.buf
                       \o Iso8601PartBytes(config.FORMAT_DATE, date, "date")
                       \o Iso8601PartBytes(config.FORMAT_TIME, time, "time")
                       \o Iso8601PartBytes(config.FORMAT_OFFSET, offset, "offset")
                /\ result'.bytes = Len(output'.buf) - Len(output.buf)]_vars

C11_Witness ==
    /\ pc = "format_into" /\ format = "Iso8601"
    /\ config.FORMAT_DATE /\ ~config.FORMAT_TIME /\ config.FORMAT_OFFSET
    /\ date # None /\ time = None /\ offset # None
    /\ output.limit = None
    /\ result.kind = "Ok" /\ result.bytes > 10

\* C12: evaluating a First item with optional = false gives the outcome of
\* evaluating its first alternative with optional = false, whatever the later
\* alternatives are; with no alternative it returns Ok(0) and writes nothing.
C12_FirstEvaluatesFirstAlternative ==
    [][(/\ pc = "ready" /\ pc' = "format_into"
        /\ IsItem /\ item.tag = "First" /\ ~optional)
       => [output |-> output', res |-> result'] =
              IF item.kids = <<>> THEN [output |-> output, res |-> Ok(0)]
              ELSE SubtreeFormatInto(item.kids[1], output, FALSE)]_vars

C12_Witness ==
    /\ pc = "format_into"
    /\ IsItem /\ item.tag = "First" /\ ~optional
    /\ Len(item.kids) = 2
    /\ item.kids[1] = ComponentItem(Component("Hour"))
    /\ item.kids[2] = ComponentItem(Component("OffsetSecond"))
    /\ time # None /\ offset = None
    /\ result = Ok(2)


\* the call is fmt_ignore on a single component of kind k and has returned
IgnoredComponent(k) ==
    pc = "fmt_ignore" /\ IsItem /\ item.tag = "Component" /\ item.comp.kind = k

\* C13: OffsetHour is ignorable iff the offset is absent or is zero in hours,
\* minutes and seconds; OffsetMinute (OffsetSecond) is ignorable iff the
\* offset is absent or its minutes (seconds) field is zero, whatever the other
\* fields are.
C13_OffsetComponentsIgnorable ==
    /\ IgnoredComponent("OffsetHour") =>
           ignore = Some(\/ offset = None
                         \/ /\ unwrap(offset).hours = 0
                            /\ unwrap(offset).minutes = 0
                            /\ unwrap(offset).seconds = 0)
    /\ IgnoredComponent("OffsetMinute") =>
           ignore = Some(offset = None \/ unwrap(offset).minutes = 0)
    /\ IgnoredComponent("OffsetSecond") =>
           ignore = Some(offset = None \/ unwrap(offset).seconds = 0)

C13_Witness ==
    /\ IgnoredComponent("OffsetHour")
    /\ offset = Some(O(0, 30, 0))
    /\ ignore = Some(FALSE)

\* C14: Second is ignorable iff no time is present or the second field is 0,
\* whatever hour, minute and nanosecond are; every kind other than Second,
\* Subsecond, OffsetHour, OffsetMinute and OffsetSecond is never ignorable.
C14_SecondIgnorableOthersNever ==
    /\ IgnoredComponent("Second") =>
           ignore = Some(time = None \/ unwrap(time).second = 0)
    /\ (pc = "fmt_ignore" /\ IsItem /\ item.tag = "Component"
           /\ item.comp.kind \notin {"Second", "Subsecond", "OffsetHour",
                                     "OffsetMinute", "OffsetSecond"}) =>
           ignore = Some(FALSE)

C14_Witness ==
    /\ IgnoredComponent("Second")
    /\ time # None /\ unwrap(time).second = 0
    /\ unwrap(time).hour # 0 /\ unwrap(time).nanosecond # 0
    /\ ignore = Some(TRUE)


\* the smallest width w in 1..9 whose w digits spell nanos exactly
MinimalWidth(nanos) ==
    CHOOSE w \in 1..9 :
        /\ nanos % pow10(9 - w) = 0
        /\ \A v \in 1..(w - 1) : nanos % pow10(9 - v) # 0

\* the bytes an Rfc3339 call has put between the seconds and the offset
Rfc3339Fraction(before, after) ==
    SubSeq(after.buf, Len(before.buf) + 20,
           Len(after.buf) - (IF offset = Some(UTC) THEN 1 ELSE 6))

\* C15: a successful Rfc3339 format emits a fractional part iff nanosecond is
\* nonzero; it is '.' followed by W digits, 1 <= W <= 9, W the smallest width
\* whose digits D satisfy D * 10^(9-W) = nanosecond, so the last digit is not
\* 0; nanosecond 120000000 gives ".12"; the unreachable!() arm is never taken.
C15_Rfc3339Fraction ==
    [][(pc = "ready" /\ pc' = "format_into" /\ format = "Rfc3339")
       => /\ result'.kind # "Panic"
          /\ result'.kind = "Ok" =>
                LET nanos == unwrap(time).nanosecond
                    frac == Rfc3339Fraction(output, output')
                    W == Len(frac) - 1
                IN  /\ (frac # <<>>) <=> (nanos # 0)
                    /\ nanos # 0 =>
                          /\ frac[1] = "."
                          /\ W \in 1..9
                          /\ W = MinimalWidth(nanos)
                          /\ Tail(frac) = pad_zero(W, nanos \div pow10(9 - W))
                          /\ (nanos \div pow10(9 - W)) * pow10(9 - W) = nanos
                          /\ frac[Len(frac)] # "0"
                    /\ nanos = 120000000 => frac = <<".", "1", "2">>]_vars

C15_Witness ==
    /\ pc = "format_into" /\ format = "Rfc3339"
    /\ result = Ok(28)
    /\ time # None /\ unwrap(time).nanosecond = 120000000
    /\ offset = Some(O(5, 30, 0))
    /\ SubSeq(output.buf, 21, 23) = <<".", "1", "2">>


\* the receiver is a Compound item or a slice
IsSequence == IsSlice \/ (IsItem /\ item.tag = "Compound")

\* the children of the receiver, in sequence order
Children == IF IsSlice THEN items ELSE item.kids

\* the receiver is suppressed: called as suppressible and every child ignorable
Suppressed == optional /\ \A k \in 1..Len(Children) : SubtreeIgnore(Children[k])

\* outcome of child k evaluated alone, suppressible = false, on the sink left
\* by the children before it
ChildOutcome[k \in 0..Len(Children)] ==
    IF k = 0 THEN [output |-> output, res |-> Ok(0)]
    ELSE SubtreeFormatInto(Children[k], ChildOutcome[k - 1].output, FALSE)

\* the children up to k all returned Ok
AllOkUpTo(k) == \A j \in 1..k : ChildOutcome[j].res.kind = "Ok"

\* the sum of the byte counts of children 1..k
SumBytes[k \in 0..Len(Children)] ==
    IF k = 0 THEN 0 ELSE SumBytes[k - 1] + ChildOutcome[k].res.bytes

\* C16: a Compound (or slice) that is not suppressed evaluates its children in
\* sequence order, each with suppressible = false; the sink receives the
\* concatenation of the children's outputs and the count is the sum of their
\* counts; at the first child that fails the call returns that child's error
\* and the sink is as that child left it: no later child writes.
C16_SequenceInOrderFailFast ==
    [][(pc = "ready" /\ pc' = "format_into" /\ IsSequence /\ ~Suppressed)
       => LET n == Len(Children)
          IN  IF AllOkUpTo(n)
              THEN /\ result' = Ok(SumBytes[n])
                   /\ output' = ChildOutcome[n].output
              ELSE \E j \in 1..n :
                       /\ AllOkUpTo(j - 1)
                       /\ ChildOutcome[j].res.kind # "Ok"
                       /\ result' = ChildOutcome[j].res
                       /\ output' = ChildOutcome[j].output]_vars

C16_Witness ==
    /\ pc = "format_into" /\ IsSequence /\ optional
    /\ Len(Children) = 2
    /\ Children[1] = ComponentItem(Component("Second"))
    /\ Children[2] = ComponentItem(Component("Hour"))
    /\ time # None /\ unwrap(time).second = 0 /\ unwrap(time).hour = 1
    /\ result = Ok(4)
    /\ output.buf = <<"#", "0", "0", "0", "1">>

\* the zero-padded writes of the RFC encoder that has run to completion
PadCalls ==
    IF format = "Rfc2822"
    THEN Rfc2822_pad_calls(unwrap(date), unwrap(time), unwrap(offset))
    ELSE Rfc3339_pad_calls(unwrap(date), unwrap(time), unwrap(offset))

\* C17: in the Rfc2822 and Rfc3339 encoders every value handed to the
\* zero-padded writer of width W is smaller than 10^W at every call reached
\* after validation; in particular the year written with width 4 is at most
\* 9999 in both encoders.
C17_PadValuesBelowWidth ==
    (RfcFormatted /\ AllPresent /\ result.kind = "Ok") =>
        /\ \A i \in 1..Len(PadCalls) : PadCalls[i][2] < pow10(PadCalls[i][1])
        /\ unwrap(date).year <= 9999


\* the call is Time::format(&TIME_FORMAT): the serde tree, a time only, not
\* suppressible, into a sink that does not fail
SerializesTime ==
    /\ format = "[FormatItem]" /\ items = TIME_FORMAT
    /\ ~optional /\ date = None /\ offset = None /\ time # None
    /\ output.limit = None

\* "HH:MM:SS" of a time
HourMinuteSecond(time_) ==
    pad_zero(2, time_.hour) \o <<":">> \o pad_zero(2, time_.minute)
        \o <<":">> \o pad_zero(2, time_.second)

\* the fractional digits of a nonzero nanosecond count, trailing zeros dropped
FractionDigits(nanos) ==
    pad_zero(MinimalWidth(nanos), nanos \div pow10(9 - MinimalWidth(nanos)))

\* C18: formatting the serde TIME_FORMAT tree for a Time: with nanosecond = 0
\* the optional group is suppressed and the output is exactly the 8 bytes
\* "HH:MM:SS" with no '.'; with nanosecond nonzero it is "HH:MM:SS", '.' and
\* the fractional digits; the seconds field is written also when second = 0.
C18_TimeFormatOutput ==
    [][(pc = "ready" /\ pc' = "format_into" /\ SerializesTime)
       => LET time_ == unwrap(time)
              hms == HourMinuteSecond(time_)
              text == IF time_.nanosecond = 0 THEN hms
                      ELSE hms \o <<".">> \o FractionDigits(time_.nanosecond)
          IN  /\ Len(hms) = 8
              /\ \A i \in 1..8 : hms[i] # "."
              /\ output'.buf = output.buf \o text
              /\ result' = Ok(Len(text))]_vars

C18_Witness ==
    /\ pc = "format_into" /\ SerializesTime
    /\ time = Some(T(0, 0, 0, 0))
    /\ result = Ok(8)
    /\ output.buf = <<"#", "0", "0", ":", "0", "0", ":", "0", "0">>


\* the kinds Component::fmt_ignore can report as ignorable
SoftKinds == {"Second", "Subsecond", "OffsetHour", "OffsetMinute", "OffsetSecond"}

\* the subtree x consists only of literals and components of those kinds,
\* and the slot each of its components reads (time or offset) is absent
RECURSIVE SoftAndSlotless(_)
SoftAndSlotless(x) ==
    CASE x.tag = "Literal" -> TRUE
      [] x.tag = "Component" ->
            /\ x.comp.kind \in SoftKinds
            /\ IF x.comp.kind \in {"Second", "Subsecond"}
               THEN time = None ELSE offset = None
      [] OTHER -> \A k \in 1..Len(x.kids) : SoftAndSlotless(x.kids[k])

\* C19: an Optional whose subtree consists only of literals and Second,
\* Subsecond, OffsetHour, OffsetMinute or OffsetSecond components, evaluated
\* with the slot those components need absent, returns Ok(0) and writes
\* nothing; such a component evaluated on its own, not suppressible, fails
\* with InsufficientTypeInformation.
C19_OptionalWithoutSlotIsSilent ==
    [][(pc = "ready" /\ pc' = "format_into" /\ IsItem /\ SoftAndSlotless(item))
       => /\ item.tag = "Optional" => (result' = Ok(0) /\ output' = output)
          /\ (item.tag = "Component" /\ ~optional) =>
                (result' = Err(InsufficientTypeInformation) /\ output' = output)]_vars

C19_Witness ==
    /\ pc = "format_into" /\ format = "FormatItem" /\ ~optional
    /\ item = Optional(Compound(<<Literal(<<".">>), ComponentItem(Component("Second"))>>))
    /\ time = None
    /\ result = Ok(0)
    /\ output.buf = <<"#">>


\* the errors an RFC encoder raises itself, as opposed to the sink's
EncoderErrors ==
    {Err(InsufficientTypeInformation), Err(InvalidComponent("year")),
     Err(InvalidComponent("offset_second"))}

\* C20: when Rfc2822 or Rfc3339 formatting returns InsufficientTypeInformation
\* or InvalidComponent the sink is unchanged: every presence and validation
\* check precedes the first byte appended, and no other non-sink error occurs.
C20_RfcErrorLeavesSinkUnchanged ==
    [][(pc = "ready" /\ pc' = "format_into" /\ format \in {"Rfc2822", "Rfc3339"})
       => /\ result' \in EncoderErrors => output' = output
          /\ (result'.kind = "Err" /\ result' \notin EncoderErrors) =>
                result'.err = StdIo]_vars

C20_Witness ==
    /\ RfcFormatted /\ format = "Rfc3339" /\ AllPresent
    /\ unwrap(date).year = 2024
    /\ unwrap(offset).seconds = 30
    /\ result = Err(InvalidComponent("offset_second"))
    /\ output.buf = <<"#">>

====
